---- MODULE Spec2Model ----
(***************************************************************************)
(* Model of the transaction-message core of solana-go-sdk:                 *)
(*   types/message.go  NewMessage, Message.Serialize, MessageDeserialize   *)
(*   common/byte.go    UintToVarLenBytes, trimTrailingZeroByte             *)
(* A public key is a 32-byte array; the model names the key whose first    *)
(* byte is k and whose other bytes are zero by the number k (KeyBytes      *)
(* gives the array), so key 0 is common.ZeroPublicKey.                     *)
(***************************************************************************)
EXTENDS Integers, Sequences, FiniteSets, TLC

VARIABLES
    feePayer,          \* NewMessage argument feePayer
    instructions,      \* NewMessage argument instructions ([]Instruction)
    recentBlockHash,   \* NewMessage argument recentBlockHash (text)
    pc,                \* position of the caller: which call returned last
    msg,               \* the Message returned by NewMessage
    msg2,              \* the Message returned by a second NewMessage call
    wire,              \* outcome of Message.Serialize
    received,          \* the bytes handed to MessageDeserialize
    how,               \* how the received bytes came about
    decoded,           \* outcome of MessageDeserialize
    number,            \* the argument l of a UintToVarLenBytes call
    encoded            \* outcome of UintToVarLenBytes

\* the variables of a direct call of UintToVarLenBytes
varintVars == <<number, encoded>>

vars == <<feePayer, instructions, recentBlockHash, pc, msg, msg2, wire,
          received, how, decoded, number, encoded>>

-----------------------------------------------------------------------------
(* Bounds of the explored inputs *)

\* total size of an instruction sequence: one per instruction (its program
\* id) plus one per AccountMeta
MaxSize == 3

\* the same, for the inputs whose bytes are serialized and parsed
CodecMaxSize == 2

-----------------------------------------------------------------------------
(* Program constants *)

ZeroPublicKey == 0

PublicKeyLength == 32

Uint8Range == 256

MaxVarintLen64 == 10

\* identities the instructions and the fee payer are drawn from
Keys == {ZeroPublicKey, 1, 2}

None == [none |-> TRUE]

-----------------------------------------------------------------------------
(* Generic helpers *)

Range(s) == {s[i] : i \in DOMAIN s}

Perms(S) ==
    {f \in [1..Cardinality(S) -> S] : \A x \in S : \E i \in DOMAIN f : f[i] = x}

RECURSIVE Concat(_)
Concat(ss) == IF ss = <<>> THEN <<>> ELSE Head(ss) \o Concat(Tail(ss))

Uint8(n) == n % Uint8Range

-----------------------------------------------------------------------------
(* types.AccountMeta, types.Instruction *)

AccountMeta(k, s, w) == [PubKey |-> k, IsSigner |-> s, IsWritable |-> w]

Instruction(p, a, d) == [ProgramID |-> p, Accounts |-> a, Data |-> d]

-----------------------------------------------------------------------------
(* NewMessage, first loop: the account map *)

\* the program id is inserted read-only and unsigned unless already present
PutProgram(accountMap, programID) ==
    IF programID \in DOMAIN accountMap
    THEN accountMap
    ELSE accountMap @@ (programID :> AccountMeta(programID, FALSE, FALSE))

PutAccountOverwrite(accountMap, account) ==
    IF account.PubKey \in DOMAIN accountMap
    THEN [accountMap EXCEPT ![account.PubKey] = account]
    ELSE accountMap @@ (account.PubKey :> account)

\* a new identity is inserted as given, a known one has its flags OR-ed
PutAccount(accountMap, account) ==
    IF account.PubKey \in DOMAIN accountMap
    THEN [accountMap EXCEPT ![account.PubKey] =
            [@ EXCEPT !.IsSigner = @ \/ account.IsSigner,
                      !.IsWritable = @ \/ account.IsWritable]]
    ELSE accountMap @@ (account.PubKey :> account)

\* the inner loop over instruction.Accounts. The map after each AccountMeta
\* is worked out before the next one is looked at, as in the loop (the
\* comparison has no other purpose: both branches go on with the same map).
RECURSIVE PutAccounts(_, _)
PutAccounts(accountMap, accounts) ==
    IF accounts = <<>> THEN accountMap
    ELSE LET next == PutAccount(accountMap, Head(accounts))
         IN  IF next = accountMap
             THEN PutAccounts(accountMap, Tail(accounts))
             ELSE PutAccounts(next, Tail(accounts))

\* the outer loop over the instructions, the map after each instruction
\* being worked out before the next instruction is looked at
RECURSIVE AccountMapOf(_, _)
AccountMapOf(accountMap, instrs) ==
    IF instrs = <<>> THEN accountMap
    ELSE LET next == PutAccounts(
                        PutProgram(accountMap, Head(instrs).ProgramID),
                        Head(instrs).Accounts)
         IN  IF next = accountMap
             THEN AccountMapOf(accountMap, Tail(instrs))
             ELSE AccountMapOf(next, Tail(instrs))

\* the orders in which `range accountMap` may visit the entries: Go leaves
\* the iteration order of a map unspecified
IterationOrders(accountMap) == Perms(DOMAIN accountMap)

-----------------------------------------------------------------------------
(* NewMessage, classification into the four slices *)

\* the entries the classify closure is called on, in visiting order
VisitedNoSkip(fp, order) == order

Visited(fp, order) ==
    IF fp /= ZeroPublicKey
    THEN LET keep(k) == k /= fp IN SelectSeq(order, keep)
    ELSE order

\* the four slices after the range loop (before the fee payer is prepended)
Classify(accountMap, visited) ==
    LET ws(k) == accountMap[k].IsSigner /\ accountMap[k].IsWritable
        rs(k) == accountMap[k].IsSigner /\ ~accountMap[k].IsWritable
        wu(k) == ~accountMap[k].IsSigner /\ accountMap[k].IsWritable
        ru(k) == ~accountMap[k].IsSigner /\ ~accountMap[k].IsWritable
    IN  [writableSigned   |-> SelectSeq(visited, ws),
         readOnlySigned   |-> SelectSeq(visited, rs),
         writableUnsigned |-> SelectSeq(visited, wu),
         readOnlyUnsigned |-> SelectSeq(visited, ru)]

PrependFeePayerNever(fp, slices) == slices

PrependFeePayerAlways(fp, slices) ==
    [slices EXCEPT !.writableSigned = <<fp>> \o @]

\* a non-zero fee payer goes in front of writableSignedAccount
PrependFeePayer(fp, slices) ==
    IF fp /= ZeroPublicKey
    THEN [slices EXCEPT !.writableSigned = <<fp>> \o @]
    ELSE slices

PublicKeysSwapped(slices) ==
    slices.writableSigned \o slices.writableUnsigned
        \o slices.readOnlySigned \o slices.readOnlyUnsigned

\* publicKeys: the four slices appended in this order
PublicKeys(slices) ==
    slices.writableSigned \o slices.readOnlySigned
        \o slices.writableUnsigned \o slices.readOnlyUnsigned

HeaderNoReadonlySigned(slices) ==
    [NumRequireSignatures |-> Uint8(Len(slices.writableSigned)),
     NumReadonlySignedAccounts |-> Uint8(Len(slices.readOnlySigned)),
     NumReadonlyUnsignedAccounts |-> Uint8(Len(slices.readOnlyUnsigned))]

\* MessageHeader: three uint8 conversions of slice lengths
HeaderOf(slices) ==
    [NumRequireSignatures |->
        Uint8(Len(slices.writableSigned) + Len(slices.readOnlySigned)),
     NumReadonlySignedAccounts |-> Uint8(Len(slices.readOnlySigned)),
     NumReadonlyUnsignedAccounts |-> Uint8(Len(slices.readOnlyUnsigned))]

-----------------------------------------------------------------------------
(* NewMessage, compiled instructions *)

PublicKeyToIdxFirstTier(publicKeys, key) == 0

\* publicKeyToIdx[key]: the map is filled in list order, so the last
\* position of a key wins, and a missing key reads as the zero value 0;
\* positions are 0-based as in the source
PublicKeyToIdx(publicKeys, key) ==
    LET at == {i \in DOMAIN publicKeys : publicKeys[i] = key}
    IN  IF at = {} THEN 0
        ELSE (CHOOSE i \in at : \A j \in at : j <= i) - 1

CompileInstruction(publicKeys, instruction) ==
    [ProgramIDIndex |-> PublicKeyToIdx(publicKeys, instruction.ProgramID),
     Accounts |-> [j \in DOMAIN instruction.Accounts |->
                     PublicKeyToIdx(publicKeys, instruction.Accounts[j].PubKey)],
     Data |-> instruction.Data]

\* NewMessage, with the order in which the map was iterated
NewMessage(fp, instrs, blockHash, order) ==
    LET accountMap == AccountMapOf(<<>>, instrs)
        slices == PrependFeePayer(fp, Classify(accountMap, Visited(fp, order)))
        publicKeys == PublicKeys(slices)
    IN  [Header |-> HeaderOf(slices),
         Accounts |-> publicKeys,
         RecentBlockHash |-> blockHash,
         Instructions |-> [k \in DOMAIN instrs |->
                             CompileInstruction(publicKeys, instrs[k])]]

-----------------------------------------------------------------------------
(* Bytes and texts *)

Zeros(n) == [i \in 1..n |-> 0]

\* the 32-byte array of the key the model names k
KeyBytes(k) == <<k>> \o Zeros(PublicKeyLength - 1)

\* a text of the base58 alphabet is named by the bytes it stands for; a
\* text that is no base58 at all is InvalidText
B58Text(bytes) == [b58 |-> bytes]

InvalidText == [invalid |-> TRUE]

\* base58.Decode: the bytes of a valid text, of whatever length, or an error
Base58Decode(text) ==
    IF text = InvalidText
    THEN [err |-> TRUE, bytes |-> <<>>]
    ELSE [err |-> FALSE, bytes |-> text.b58]

\* base58.Encode
Base58Encode(bytes) == B58Text(bytes)

ValidHash == B58Text(<<7>> \o Zeros(PublicKeyLength - 1))

ShortHash == B58Text(<<7>> \o Zeros(PublicKeyLength - 2))

\* hex.EncodeToString: two digits (0..15) per byte, high digit first
HexEncodeToString(bytes) ==
    [i \in 1..(2 * Len(bytes)) |->
        IF i % 2 = 1 THEN bytes[(i + 1) \div 2] \div 16
                     ELSE bytes[i \div 2] % 16]

\* common.PublicKeyFromHex: the bytes of the hex digits
PublicKeyFromHex(digits) ==
    [i \in 1..(Len(digits) \div 2) |-> digits[2 * i - 1] * 16 + digits[2 * i]]

-----------------------------------------------------------------------------
(* common.UintToVarLenBytes *)

\* the bytes binary.PutUvarint writes for l
RECURSIVE UvarintBytes(_)
UvarintBytes(l) ==
    IF l < 128 THEN <<l>>
    ELSE <<(l % 128) + 128>> \o UvarintBytes(l \div 128)

\* the buffer of MaxVarintLen64 bytes after binary.PutUvarint(b, l)
PutUvarint(l) ==
    UvarintBytes(l) \o Zeros(MaxVarintLen64 - Len(UvarintBytes(l)))

\* trimTrailingZeroByte: the loop condition len(*b) >= 0 always holds, so
\* an emptied slice is indexed at len-1 = -1, which panics
RECURSIVE TrimTrailingZeroByte(_)
TrimTrailingZeroByte(b) ==
    IF Len(b) = 0 THEN [panic |-> TRUE, bytes |-> <<>>]
    ELSE IF b[Len(b)] /= 0 THEN [panic |-> FALSE, bytes |-> b]
    ELSE TrimTrailingZeroByte(SubSeq(b, 1, Len(b) - 1))

UintToVarLenBytes(l) == TrimTrailingZeroByte(PutUvarint(l))

-----------------------------------------------------------------------------
(* Message.Serialize *)

Ok(bytes) == [status |-> "ok", bytes |-> bytes]

Failed(status) == [status |-> status, bytes |-> <<>>]

\* one instruction of the loop of Serialize
SerializeInstruction(instruction) ==
    LET n == UintToVarLenBytes(Len(instruction.Accounts))
    IN  IF n.panic THEN Failed("panic")
        ELSE Ok(<<Uint8(instruction.ProgramIDIndex)>>
                \o n.bytes
                \o [j \in DOMAIN instruction.Accounts |->
                        Uint8(instruction.Accounts[j])]
                \o <<Uint8(Len(instruction.Data))>>
                \o instruction.Data)

RECURSIVE SerializeInstructions(_)
SerializeInstructions(instrs) ==
    IF instrs = <<>> THEN Ok(<<>>)
    ELSE LET first == SerializeInstruction(Head(instrs))
             others == SerializeInstructions(Tail(instrs))
         IN  IF first.status /= "ok" THEN first
             ELSE IF others.status /= "ok" THEN others
             ELSE Ok(first.bytes \o others.bytes)

Serialize(m) ==
    LET header == <<m.Header.NumRequireSignatures,
                    m.Header.NumReadonlySignedAccounts,
                    m.Header.NumReadonlyUnsignedAccounts>>
        nAccounts == UintToVarLenBytes(Len(m.Accounts))
        keys == Concat([i \in DOMAIN m.Accounts |-> KeyBytes(m.Accounts[i])])
        blockHash == Base58Decode(m.RecentBlockHash)
        nInstructions == UintToVarLenBytes(Len(m.Instructions))
        body == SerializeInstructions(m.Instructions)
    IN  IF nAccounts.panic THEN Failed("panic")
        ELSE IF blockHash.err THEN Failed("error")
        ELSE IF nInstructions.panic THEN Failed("panic")
        ELSE IF body.status /= "ok" THEN body
        ELSE Ok(header \o nAccounts.bytes \o keys \o blockHash.bytes
                \o nInstructions.bytes \o body.bytes)

-----------------------------------------------------------------------------
(* parseUvarint and 64-bit values *)

\* position of the first byte from i on without the continuation bit, or 0
\* when the bytes end first or MaxVarintLen64 bytes have all had it
RECURSIVE VarintEnd(_, _)
VarintEnd(data, i) ==
    IF i > Len(data) \/ i > MaxVarintLen64 THEN 0
    ELSE IF data[i] < 128 THEN i
    ELSE VarintEnd(data, i + 1)

\* parseUvarint: the 7-bit groups of the value, low group first, and the
\* bytes left; it fails when the bytes end before a terminating byte or when
\* more than MaxVarintLen64 bytes belong to the value, and then returns the
\* zero value and leaves the bytes as they are
ParseUvarint(data) ==
    LET n == VarintEnd(data, 1)
    IN  IF n = 0
        THEN [err |-> TRUE, digits |-> <<>>, rest |-> data]
        ELSE [err |-> FALSE,
              digits |-> [i \in 1..n |-> data[i] % 128],
              rest |-> SubSeq(data, n + 1, Len(data))]

\* bit i (0..63) of the uint64 whose 7-bit groups are digits
Bit(digits, i) ==
    LET g == (i \div 7) + 1
    IN  IF g > Len(digits) THEN 0 ELSE (digits[g] \div (2 ^ (i % 7))) % 2

\* the bits 0..27 of the value, as a number
Low28(digits) ==
    LET d(g) == IF g > Len(digits) THEN 0 ELSE digits[g]
    IN  d(1) + 128 * d(2) + 128 * 128 * d(3) + 128 * 128 * 128 * d(4)

Small(digits) == \A i \in 28..63 : Bit(digits, i) = 0

\* stands for every value of 2^28 or more: such a value is only ever
\* compared with lengths of byte sequences, which are far smaller
Huge == 128 * 128 * 128 * 128

Value(digits) == IF Small(digits) THEN Low28(digits) ELSE Huge

\* the ten 7-bit groups of a uint64 (bit 63 is the low bit of the tenth)
Groups(digits) ==
    [g \in 1..MaxVarintLen64 |->
        IF g > Len(digits) THEN 0
        ELSE IF g = MaxVarintLen64 THEN digits[g] % 2
        ELSE digits[g]]

\* a > b for uint64 values given by their groups
Greater(a, b) ==
    \E g \in 1..MaxVarintLen64 :
        /\ Groups(a)[g] > Groups(b)[g]
        /\ \A h \in (g + 1)..MaxVarintLen64 : Groups(a)[h] = Groups(b)[h]

\* the largest capacities make accepts, 2^48 bytes divided by the element
\* size: common.PublicKey 32 bytes, CompiledInstruction 56 bytes, int 8
\* bytes; a larger capacity panics, a smaller one is taken to be allocated
MaxCapPublicKey == <<0, 0, 0, 0, 0, 0, 2>>

MaxCapInstruction == <<73, 36, 18, 73, 36, 18, 1>>

MaxCapInt == <<0, 0, 0, 0, 0, 0, 8>>

MakePanics(digits, maxCap) == Greater(digits, maxCap)

-----------------------------------------------------------------------------
(* MessageDeserialize *)

Parsed(m) == [status |-> "ok", msg |-> m]

ParseFailed(status) == [status |-> status, msg |-> None]

\* the header loop: the error of parseUvarint is not looked at, only a
\* value above 255 ends the call
ParseHeader(data) ==
    LET a == ParseUvarint(data)
        b == ParseUvarint(a.rest)
        c == ParseUvarint(b.rest)
    IN  IF Value(a.digits) > 255 \/ Value(b.digits) > 255 \/ Value(c.digits) > 255
        THEN [err |-> TRUE, header |-> None, rest |-> data]
        ELSE [err |-> FALSE,
              header |-> [NumRequireSignatures |-> Uint8(Value(a.digits)),
                          NumReadonlySignedAccounts |-> Uint8(Value(b.digits)),
                          NumReadonlyUnsignedAccounts |-> Uint8(Value(c.digits))],
              rest |-> c.rest]

\* len(messageData) < int(accountCount)*32, then make(.., 0, accountCount).
\* The product is a 64-bit signed product: its sign is bit 58 of the count,
\* bits 59..63 of the count are lost, and it is small only when bits 28..57
\* of the count are all zero.
AccountCountCheck(digits, len) ==
    LET negative == Bit(digits, 58) = 1
        lowSmall == \A i \in 28..57 : Bit(digits, i) = 0
        tooFew == /\ ~negative
                  /\ ~lowSmall \/ len \div PublicKeyLength < Low28(digits)
    IN  IF tooFew THEN "error"
        ELSE IF MakePanics(digits, MaxCapPublicKey) THEN "panic"
        ELSE "ok"

\* the accounts loop: n keys of 32 bytes each
ParseAccounts(data, n) ==
    [accounts |-> [i \in 1..n |->
                    PublicKeyFromHex(HexEncodeToString(
                        SubSeq(data, PublicKeyLength * (i - 1) + 1,
                               PublicKeyLength * i)))],
     rest |-> SubSeq(data, PublicKeyLength * n + 1, Len(data))]

\* the loop over the account indices of one instruction
RECURSIVE ParseAccountIdx(_, _, _)
ParseAccountIdx(data, n, acc) ==
    IF n = 0 THEN [err |-> FALSE, accounts |-> acc, rest |-> data]
    ELSE LET r == ParseUvarint(data)
         IN  IF r.err THEN [err |-> TRUE, accounts |-> acc, rest |-> data]
             ELSE ParseAccountIdx(r.rest, n - 1, Append(acc, Value(r.digits)))

\* data, messageData = messageData[:dataLen], messageData[dataLen:] with no
\* check of dataLen against what is left: messageData[dataLen:] panics when
\* dataLen exceeds len(messageData)
TakeData(data, dataLen) ==
    IF dataLen > Len(data) THEN [status |-> "panic", data |-> <<>>, rest |-> data]
    ELSE [status |-> "ok",
          data |-> SubSeq(data, 1, dataLen),
          rest |-> SubSeq(data, dataLen + 1, Len(data))]

\* one pass of the instruction loop
ParseInstruction(data) ==
    LET programID == ParseUvarint(data)
        accountCount == ParseUvarint(programID.rest)
        accounts == ParseAccountIdx(accountCount.rest,
                                    Value(accountCount.digits), <<>>)
        dataLen == ParseUvarint(accounts.rest)
        payload == TakeData(dataLen.rest, Value(dataLen.digits))
        failed(st) == [status |-> st, instruction |-> None, rest |-> data]
    IN  IF programID.err THEN failed("error")
        ELSE IF accountCount.err THEN failed("error")
        ELSE IF MakePanics(accountCount.digits, MaxCapInt) THEN failed("panic")
        ELSE IF accounts.err THEN failed("error")
        ELSE IF dataLen.err THEN failed("error")
        ELSE IF payload.status /= "ok" THEN failed(payload.status)
        ELSE [status |-> "ok",
              instruction |-> [ProgramIDIndex |-> Value(programID.digits),
                               Accounts |-> accounts.accounts,
                               Data |-> payload.data],
              rest |-> payload.rest]

RECURSIVE ParseInstructions(_, _, _)
ParseInstructions(data, n, acc) ==
    IF n = 0 THEN [status |-> "ok", instructions |-> acc]
    ELSE LET r == ParseInstruction(data)
         IN  IF r.status /= "ok" THEN [status |-> r.status, instructions |-> acc]
             ELSE ParseInstructions(r.rest, n - 1, Append(acc, r.instruction))

MessageDeserialize(messageData) ==
    LET h == ParseHeader(messageData)
        accountCount == ParseUvarint(h.rest)
        countCheck == AccountCountCheck(accountCount.digits, Len(accountCount.rest))
        accounts == ParseAccounts(accountCount.rest, Value(accountCount.digits))
        blockHash == Base58Encode(SubSeq(accounts.rest, 1, PublicKeyLength))
        afterHash == SubSeq(accounts.rest, PublicKeyLength + 1, Len(accounts.rest))
        instructionCount == ParseUvarint(afterHash)
        instrs == ParseInstructions(instructionCount.rest,
                                    Value(instructionCount.digits), <<>>)
    IN  IF h.err THEN ParseFailed("error")
        ELSE IF countCheck /= "ok" THEN ParseFailed(countCheck)
        ELSE IF Len(accounts.rest) < PublicKeyLength THEN ParseFailed("error")
        ELSE IF instructionCount.err THEN ParseFailed("error")
        ELSE IF MakePanics(instructionCount.digits, MaxCapInstruction)
             THEN ParseFailed("panic")
        ELSE IF instrs.status /= "ok" THEN ParseFailed(instrs.status)
        ELSE Parsed([Header |-> h.header,
                     Accounts |-> accounts.accounts,
                     RecentBlockHash |-> blockHash,
                     Instructions |-> instrs.instructions])

-----------------------------------------------------------------------------
(* Inputs *)

Metas == {AccountMeta(k, s, w) : k \in Keys, s \in BOOLEAN, w \in BOOLEAN}

MetaSeqs(n) == [1..n -> Metas]

\* instruction sequences of total size at most s, payloads from D
RECURSIVE InstructionSeqs(_, _)
InstructionSeqs(s, D) ==
    IF s = 0 THEN {<<>>}
    ELSE {<<>>} \cup
         UNION {UNION {{<<Instruction(p, a, d)>> \o rest :
                            p \in Keys, a \in MetaSeqs(n), d \in D,
                            rest \in InstructionSeqs(s - 1 - n, D)} } :
                n \in 0..(s - 1)}

-----------------------------------------------------------------------------
(* The caller: NewMessage on drawn inputs *)

Init ==
    /\ feePayer \in Keys
    /\ instructions \in InstructionSeqs(MaxSize, {<<9>>})
    /\ recentBlockHash = ValidHash
    /\ pc = "input"
    /\ msg = None
    /\ msg2 = None
    /\ wire = None
    /\ received = None
    /\ how = "none"
    /\ decoded = None
    /\ number = 0
    /\ encoded = None

Compile ==
    /\ pc = "input"
    /\ \E order \in IterationOrders(AccountMapOf(<<>>, instructions)) :
          msg' = NewMessage(feePayer, instructions, recentBlockHash, order)
    /\ pc' = "compiled"
    /\ UNCHANGED <<feePayer, instructions, recentBlockHash, msg2, wire, received,
                   how, decoded, varintVars>>

Next == Compile

Spec == Init /\ [][Next]_vars

\* a second NewMessage call on the same arguments
Recompile ==
    /\ pc = "compiled"
    /\ \E order \in IterationOrders(AccountMapOf(<<>>, instructions)) :
          msg2' = NewMessage(feePayer, instructions, recentBlockHash, order)
    /\ pc' = "recompiled"
    /\ UNCHANGED <<feePayer, instructions, recentBlockHash, msg, wire, received,
                   how, decoded, varintVars>>

NextTwice ==
    \/ Compile
    \/ Recompile

SpecTwice == Init /\ [][NextTwice]_vars

-----------------------------------------------------------------------------
(* The caller of the codec: NewMessage, Serialize, then MessageDeserialize
   on bytes that arrive intact, cut short, with one byte changed, or that
   were never produced by Serialize *)

\* payloads of 0, 1 and 128 bytes
Payloads == {<<>>, <<9>>, [i \in 1..128 |-> 200]}

BlockHashTexts == {ValidHash, ShortHash, InvalidText}

\* byte values written over a byte of a serialized message
ByteSamples == {255}

\* account counts of 2, 2^58 and 2^59 as varints
CraftedCounts ==
    {<<2>>,
     <<128, 128, 128, 128, 128, 128, 128, 128, 4>>,
     <<128, 128, 128, 128, 128, 128, 128, 128, 8>>}

\* what follows the crafted account count: two keys, a block hash and one
\* instruction whose payload length byte is d, with 0, 1 or 2 bytes after it
CraftedTails ==
    {Zeros(3 * PublicKeyLength) \o <<1, 0, 1, 0, d>> \o Zeros(n) :
        d \in {0, 2}, n \in 0..2}

InitCodec ==
    /\ feePayer \in Keys
    /\ instructions \in InstructionSeqs(CodecMaxSize, Payloads)
    /\ recentBlockHash \in BlockHashTexts
    /\ pc = "input"
    /\ msg = None
    /\ msg2 = None
    /\ wire = None
    /\ received = None
    /\ how = "none"
    /\ decoded = None
    /\ number = 0
    /\ encoded = None

SerializeMsg ==
    /\ pc = "compiled"
    /\ wire' = Serialize(msg)
    /\ pc' = "serialized"
    /\ UNCHANGED <<feePayer, instructions, recentBlockHash, msg, msg2,
                   received, how, decoded, varintVars>>

\* the serialized bytes are parsed as they are
DeserializeIntact ==
    /\ pc = "serialized"
    /\ wire.status = "ok"
    /\ received' = wire.bytes
    /\ how' = "intact"
    /\ decoded' = MessageDeserialize(wire.bytes)
    /\ pc' = "decoded"
    /\ UNCHANGED <<feePayer, instructions, recentBlockHash, msg, msg2, wire,
                   varintVars>>

\* a proper prefix of the serialized bytes of a valid message is parsed
DeserializeTruncated ==
    /\ pc = "serialized"
    /\ wire.status = "ok"
    /\ recentBlockHash = ValidHash
    /\ \E n \in 0..(Len(wire.bytes) - 1) :
        /\ received' = SubSeq(wire.bytes, 1, n)
        /\ decoded' = MessageDeserialize(SubSeq(wire.bytes, 1, n))
    /\ how' = "truncated"
    /\ pc' = "decoded"
    /\ UNCHANGED <<feePayer, instructions, recentBlockHash, msg, msg2, wire,
                   varintVars>>

\* the serialized bytes of a valid message with one byte changed are parsed
DeserializeCorrupted ==
    /\ pc = "serialized"
    /\ wire.status = "ok"
    /\ recentBlockHash = ValidHash
    /\ \E i \in DOMAIN wire.bytes, v \in ByteSamples :
        /\ v /= wire.bytes[i]
        /\ received' = [wire.bytes EXCEPT ![i] = v]
        /\ decoded' = MessageDeserialize([wire.bytes EXCEPT ![i] = v])
    /\ how' = "corrupted"
    /\ pc' = "decoded"
    /\ UNCHANGED <<feePayer, instructions, recentBlockHash, msg, msg2, wire,
                   varintVars>>

\* bytes of someone else's making are parsed
DeserializeCrafted ==
    /\ pc = "input"
    /\ instructions = <<>>
    /\ \E h \in {0, 255}, c \in CraftedCounts, t \in CraftedTails :
        /\ received' = <<h, 0, 0>> \o c \o t
        /\ decoded' = MessageDeserialize(<<h, 0, 0>> \o c \o t)
    /\ how' = "crafted"
    /\ pc' = "decoded"
    /\ UNCHANGED <<feePayer, instructions, recentBlockHash, msg, msg2, wire,
                   varintVars>>

NextCodec ==
    \/ Compile
    \/ SerializeMsg
    \/ DeserializeIntact
    \/ DeserializeTruncated
    \/ DeserializeCorrupted
    \/ DeserializeCrafted

SpecCodec == InitCodec /\ [][NextCodec]_vars

-----------------------------------------------------------------------------
(* What the instruction sequence asks for, read off the raw instructions *)

\* positions (i, j) of the AccountMetas of the instruction sequence
MetaAt ==
    UNION {{<<i, j>> : j \in DOMAIN instructions[i].Accounts} :
                i \in DOMAIN instructions}

MetaOf(p) == instructions[p[1]].Accounts[p[2]]

Mentioned ==
    {instructions[i].ProgramID : i \in DOMAIN instructions}
        \cup {MetaOf(p).PubKey : p \in MetaAt}

RequestedSigner(k) == \E p \in MetaAt : MetaOf(p).PubKey = k /\ MetaOf(p).IsSigner

RequestedWritable(k) == \E p \in MetaAt : MetaOf(p).PubKey = k /\ MetaOf(p).IsWritable

Supplied == feePayer /= ZeroPublicKey

Identities == Mentioned \cup (IF Supplied THEN {feePayer} ELSE {})

\* the flags an identity ends up with: a supplied fee payer is signer and
\* writable, any other identity has the OR of what was requested for it
EffSigner(k) == (Supplied /\ k = feePayer) \/ RequestedSigner(k)

EffWritable(k) == (Supplied /\ k = feePayer) \/ RequestedWritable(k)

Compiled == pc = "compiled"

NumSig == msg.Header.NumRequireSignatures

NumRoSig == msg.Header.NumReadonlySignedAccounts

NumRoUnsig == msg.Header.NumReadonlyUnsignedAccounts

\* 1-based positions of the tiers in msg.Accounts, read off the header
InSignerTier(i) == i <= NumSig

InWritableTier(i) ==
    \/ i <= NumSig - NumRoSig
    \/ i > NumSig /\ i <= Len(msg.Accounts) - NumRoUnsig

PositionsOf(k) == {i \in DOMAIN msg.Accounts : msg.Accounts[i] = k}

-----------------------------------------------------------------------------
(* C2 *)

\* C2: two runs of NewMessage on the same instruction sequence, fee payer
\* and block hash return the same Message.
C2_Determinism == pc = "recompiled" => msg2 = msg

-----------------------------------------------------------------------------
(* C1 *)

\* the Message a parse returned, against the Message that was serialized
SameMessage(parsed, m) ==
    /\ parsed.Header = m.Header
    /\ Len(parsed.Accounts) = Len(m.Accounts)
    /\ \A i \in DOMAIN m.Accounts : parsed.Accounts[i] = KeyBytes(m.Accounts[i])
    /\ parsed.RecentBlockHash = m.RecentBlockHash
    /\ Len(parsed.Instructions) = Len(m.Instructions)
    /\ \A k \in DOMAIN m.Instructions :
        /\ parsed.Instructions[k].ProgramIDIndex = m.Instructions[k].ProgramIDIndex
        /\ parsed.Instructions[k].Accounts = m.Instructions[k].Accounts
        /\ parsed.Instructions[k].Data = m.Instructions[k].Data

\* C1: for every Message returned by NewMessage with a block hash that is
\* valid text for 32 bytes, Serialize succeeds, and MessageDeserialize of
\* the bytes succeeds and returns the same header, accounts, block hash and
\* instructions.
C1_RoundTrip ==
    /\ (pc = "serialized" /\ recentBlockHash = ValidHash) => wire.status = "ok"
    /\ (pc = "decoded" /\ how = "intact" /\ recentBlockHash = ValidHash) =>
            /\ decoded.status = "ok"
            /\ SameMessage(decoded.msg, msg)

-----------------------------------------------------------------------------
(* C3 *)

\* C3: MessageDeserialize of a proper prefix of the Serialize output of a
\* valid message returns an error: no panic, no parsed message.
C3_TruncationSafe ==
    (pc = "decoded" /\ how = "truncated") => decoded.status = "error"

-----------------------------------------------------------------------------
(* C4 *)

\* C4: on every input MessageDeserialize returns a message or an error; a
\* declared count or length beyond the bytes that remain gives an error,
\* never an access past the end of the buffer.
C4_FailClosed ==
    pc = "decoded" => decoded.status \in {"ok", "error"}

-----------------------------------------------------------------------------
(* C5 *)

\* C5: when a fee payer is supplied, Accounts[0] is the fee payer and it
\* lies in the writable-signed tier, whatever the instructions say of it.
C5_FeePayerFirst ==
    (Compiled /\ Supplied) =>
        /\ Len(msg.Accounts) >= 1
        /\ msg.Accounts[1] = feePayer
        /\ 1 <= NumSig - NumRoSig

\* a fee payer that the instructions name, but never as signer or writable
C5_Witness ==
    /\ Compiled /\ Supplied
    /\ feePayer \in Mentioned
    /\ ~RequestedSigner(feePayer) /\ ~RequestedWritable(feePayer)
    /\ Len(msg.Accounts) >= 2

-----------------------------------------------------------------------------
(* C6 *)

\* C6 as stated: the header counts are the numbers of identities by their
\* merged flags alone (signers, read-only signers, read-only non-signers),
\* the rest being writable-unsigned.
C6_TierArithmeticMerged ==
    Compiled =>
        /\ NumSig = Cardinality({k \in Mentioned : RequestedSigner(k)})
        /\ NumRoSig = Cardinality({k \in Mentioned :
                            RequestedSigner(k) /\ ~RequestedWritable(k)})
        /\ NumRoUnsig = Cardinality({k \in Mentioned :
                            ~RequestedSigner(k) /\ ~RequestedWritable(k)})
        /\ Len(msg.Accounts) - NumSig - NumRoUnsig =
                Cardinality({k \in Mentioned :
                            ~RequestedSigner(k) /\ RequestedWritable(k)})

\* C6 amended: the header counts are, as uint8, the numbers of identities
\* (a supplied fee payer included) by their flags, where a supplied fee
\* payer counts as signer and writable whatever its merged flags; the
\* identities not counted by the header are the writable non-signers.
C6_TierArithmetic ==
    Compiled =>
        /\ NumSig = Cardinality({k \in Identities : EffSigner(k)}) % Uint8Range
        /\ NumRoSig = Cardinality({k \in Identities :
                            EffSigner(k) /\ ~EffWritable(k)}) % Uint8Range
        /\ NumRoUnsig = Cardinality({k \in Identities :
                            ~EffSigner(k) /\ ~EffWritable(k)}) % Uint8Range
        /\ Len(msg.Accounts) = Cardinality(Identities)

\* a fee payer the instructions do not make a signer, next to a read-only
\* signer and a writable non-signer
C6_Witness ==
    /\ Compiled /\ Supplied
    /\ ~RequestedSigner(feePayer)
    /\ NumRoSig >= 1
    /\ \E k \in Mentioned : k /= feePayer /\ ~RequestedSigner(k) /\ RequestedWritable(k)

-----------------------------------------------------------------------------
(* C7 *)

\* C7: an identity that any AccountMeta marks writable (signer) lies in a
\* writable (signer) tier; a merged flag is the OR of the requested flags:
\* apart from a supplied fee payer, an identity lies in a signer (writable)
\* tier exactly when some AccountMeta asks for it.
C7_PrivilegeMonotonic ==
    Compiled =>
        \A k \in Mentioned :
            /\ PositionsOf(k) /= {}
            /\ \A i \in PositionsOf(k) :
                /\ RequestedSigner(k) => InSignerTier(i)
                /\ RequestedWritable(k) => InWritableTier(i)
                /\ ~(Supplied /\ k = feePayer) =>
                    /\ InSignerTier(i) <=> RequestedSigner(k)
                    /\ InWritableTier(i) <=> RequestedWritable(k)

\* an identity marked writable and signer by one AccountMeta, then used
\* read-only and unsigned by a later AccountMeta and as a program id
C7_Witness ==
    /\ Compiled
    /\ \E p \in MetaAt, q \in MetaAt :
        /\ p[1] < q[1] \/ (p[1] = q[1] /\ p[2] < q[2])
        /\ MetaOf(p).PubKey = MetaOf(q).PubKey
        /\ MetaOf(p).PubKey /= feePayer
        /\ MetaOf(p).IsWritable /\ MetaOf(p).IsSigner
        /\ ~MetaOf(q).IsWritable /\ ~MetaOf(q).IsSigner
        /\ \E i \in DOMAIN instructions : instructions[i].ProgramID = MetaOf(p).PubKey

-----------------------------------------------------------------------------
(* C8 *)

\* C8: the k-th compiled instruction is the k-th raw instruction with its
\* program id and account identities replaced by in-range positions of the
\* account list that hold those identities, and with the same payload.
C8_IndexResolution ==
    Compiled =>
        /\ Len(msg.Instructions) = Len(instructions)
        /\ \A k \in DOMAIN instructions :
            LET raw == instructions[k]
                ci == msg.Instructions[k]
            IN  /\ ci.ProgramIDIndex >= 0
                /\ ci.ProgramIDIndex < Len(msg.Accounts)
                /\ msg.Accounts[ci.ProgramIDIndex + 1] = raw.ProgramID
                /\ Len(ci.Accounts) = Len(raw.Accounts)
                /\ \A j \in DOMAIN raw.Accounts :
                    /\ ci.Accounts[j] >= 0
                    /\ ci.Accounts[j] < Len(msg.Accounts)
                    /\ msg.Accounts[ci.Accounts[j] + 1] = raw.Accounts[j].PubKey
                /\ ci.Data = raw.Data

\* two instructions, one with two accounts at different positions, none at 0
C8_Witness ==
    /\ Compiled
    /\ Len(msg.Instructions) = 2
    /\ \E k \in DOMAIN msg.Instructions :
        /\ Len(msg.Instructions[k].Accounts) >= 1
        /\ msg.Instructions[k].Accounts[1] > 0
        /\ msg.Instructions[k].ProgramIDIndex > msg.Instructions[k].Accounts[1]

-----------------------------------------------------------------------------
(* C9 *)

\* C9: the account list holds no identity twice and holds exactly the
\* supplied fee payer, the program ids and the account identities.
C9_UniqueCoverage ==
    Compiled =>
        /\ \A i \in DOMAIN msg.Accounts, j \in DOMAIN msg.Accounts :
                msg.Accounts[i] = msg.Accounts[j] => i = j
        /\ Range(msg.Accounts) = Identities

\* the fee payer appears in the instructions, and one identity is both a
\* program id and an account
C9_Witness ==
    /\ Compiled /\ Supplied
    /\ feePayer \in Mentioned
    /\ \E i \in DOMAIN instructions, p \in MetaAt :
            instructions[i].ProgramID = MetaOf(p).PubKey

-----------------------------------------------------------------------------
(* C10 *)

\* C10: the account list is the writable-signed, read-only-signed,
\* writable-unsigned and read-only-unsigned identities in that order: the
\* first NumRequireSignatures accounts are exactly the signers, the last
\* NumReadonlySignedAccounts of them exactly the read-only signers, and the
\* last NumReadonlyUnsignedAccounts accounts exactly the read-only
\* non-signers.
C10_TierLayout ==
    Compiled =>
        /\ NumRoSig <= NumSig
        /\ NumSig + NumRoUnsig <= Len(msg.Accounts)
        /\ \A i \in DOMAIN msg.Accounts :
            LET k == msg.Accounts[i] IN
            /\ i <= NumSig <=> EffSigner(k)
            /\ (i > NumSig - NumRoSig /\ i <= NumSig) <=>
                    (EffSigner(k) /\ ~EffWritable(k))
            /\ i > Len(msg.Accounts) - NumRoUnsig <=>
                    (~EffSigner(k) /\ ~EffWritable(k))

\* three different tiers are inhabited, one of them read-only-signed
C10_Witness ==
    /\ Compiled
    /\ Len(msg.Accounts) = 3
    /\ NumSig = 2 /\ NumRoSig = 1
    /\ NumRoUnsig = 0

-----------------------------------------------------------------------------
(* C11 *)

\* the identities of the instruction sequence in the order they are named:
\* per instruction its program id, then the identities of its accounts
Occurrences ==
    Concat([i \in DOMAIN instructions |->
                <<instructions[i].ProgramID>>
                    \o [j \in DOMAIN instructions[i].Accounts |->
                            instructions[i].Accounts[j].PubKey]])

\* where an identity of the instruction sequence is named first
FirstOccurrence(k) ==
    CHOOSE i \in DOMAIN Occurrences :
        /\ Occurrences[i] = k
        /\ \A j \in DOMAIN Occurrences : Occurrences[j] = k => i <= j

SameTier(k, l) ==
    /\ EffSigner(k) <=> EffSigner(l)
    /\ EffWritable(k) <=> EffWritable(l)

\* C11: two identities of the same tier stand in msg.Accounts in the order
\* of their first occurrence in the instruction sequence (program id before
\* the accounts of its instruction), a supplied fee payer standing before
\* every other identity of the writable-signed tier.
C11_WithinTierOrder ==
    Compiled =>
        \A i \in DOMAIN msg.Accounts, j \in DOMAIN msg.Accounts :
            (i < j /\ SameTier(msg.Accounts[i], msg.Accounts[j])) =>
                IF Supplied /\ msg.Accounts[i] = feePayer THEN TRUE
                ELSE IF Supplied /\ msg.Accounts[j] = feePayer THEN FALSE
                ELSE FirstOccurrence(msg.Accounts[i])
                        < FirstOccurrence(msg.Accounts[j])

-----------------------------------------------------------------------------
(* A caller of common.UintToVarLenBytes *)

\* the arguments 0..MaxValue are all tried
MaxValue == 300

\* arguments around the steps to 3, 4 and 5 bytes, and the largest int32
BoundaryValues == {16383, 16384, 2097151, 2097152, 268435455, 268435456,
                   2147483647}

InitVarint ==
    /\ number \in (0..MaxValue) \cup BoundaryValues
    /\ encoded = None
    /\ pc = "input"
    /\ feePayer = ZeroPublicKey
    /\ instructions = <<>>
    /\ recentBlockHash = ValidHash
    /\ msg = None
    /\ msg2 = None
    /\ wire = None
    /\ received = None
    /\ how = "none"
    /\ decoded = None

Encode ==
    /\ pc = "input"
    /\ encoded' = UintToVarLenBytes(number)
    /\ pc' = "encoded"
    /\ UNCHANGED <<feePayer, instructions, recentBlockHash, msg, msg2, wire,
                   received, how, decoded, number>>

NextVarint == Encode

SpecVarint == InitVarint /\ [][NextVarint]_vars

-----------------------------------------------------------------------------
(* C12 *)

\* the number a little-endian base-128 byte string stands for
RECURSIVE Base128Value(_)
Base128Value(bytes) ==
    IF bytes = <<>> THEN 0
    ELSE (Head(bytes) % 128) + 128 * Base128Value(Tail(bytes))

\* at least one byte, continuation bit on every byte but the last, and no
\* superfluous final group of zero bits
MinimalBase128(bytes) ==
    /\ Len(bytes) >= 1
    /\ \A i \in 1..(Len(bytes) - 1) : bytes[i] >= 128
    /\ bytes[Len(bytes)] < 128
    /\ Len(bytes) > 1 => bytes[Len(bytes)] /= 0

\* C12: for every l >= 0, UintToVarLenBytes(l) returns, without a panic,
\* the minimal little-endian base-128 encoding of l, which decodes to l; 0
\* gives the byte 0x00 and 300 the bytes 0xAC, 0x02.
C12_VarintEncoding ==
    pc = "encoded" =>
        /\ ~encoded.panic
        /\ MinimalBase128(encoded.bytes)
        /\ Base128Value(encoded.bytes) = number
        /\ number = 0 => encoded.bytes = <<0>>
        /\ number = 300 => encoded.bytes = <<172, 2>>

-----------------------------------------------------------------------------
(* C13 *)

\* a text that base58 decodes to exactly 32 bytes
ValidBlockHashText(text) ==
    /\ text /= InvalidText
    /\ Len(text.b58) = PublicKeyLength

\* bytes of the Serialize output before the block hash: the header, the
\* account count and the accounts
BeforeBlockHash(m) ==
    3 + Len(UintToVarLenBytes(Len(m.Accounts)).bytes)
      + PublicKeyLength * Len(m.Accounts)

\* bytes of the Serialize output after the block hash: the instruction
\* count and the instructions
AfterBlockHash(m) ==
    Len(UintToVarLenBytes(Len(m.Instructions)).bytes)
      + Len(SerializeInstructions(m.Instructions).bytes)

\* C13: Serialize of a message whose RecentBlockHash is not valid text for
\* exactly 32 bytes (undecodable, or decoding to another length) returns an
\* error and no bytes; a successful Serialize has exactly 32 block hash
\* bytes between the account list and the instruction count. Stated of the
\* calls that return, so that the panic of UintToVarLenBytes(0) on an empty
\* list is not what is measured here.
C13_BlockHashEncodeError ==
    (pc = "serialized" /\ wire.status /= "panic") =>
        /\ ~ValidBlockHashText(msg.RecentBlockHash) =>
                (wire.status = "error" /\ wire.bytes = <<>>)
        /\ wire.status = "ok" =>
                Len(wire.bytes) - BeforeBlockHash(msg) - AfterBlockHash(msg)
                    = PublicKeyLength

-----------------------------------------------------------------------------
(* The caller of NewMessage and Serialize with long instruction payloads *)

\* the longest instruction payload tried
MaxDataLen == 257

\* payload lengths: none, one byte, and the three longest
DataLens == {0, 1} \cup ((MaxDataLen - 2)..MaxDataLen)

InitPayload ==
    /\ feePayer \in Keys
    /\ \E p \in Keys, a \in MetaSeqs(1), n \in DataLens :
          instructions = <<Instruction(p, a, [i \in 1..n |-> 9])>>
    /\ recentBlockHash = ValidHash
    /\ pc = "input"
    /\ msg = None
    /\ msg2 = None
    /\ wire = None
    /\ received = None
    /\ how = "none"
    /\ decoded = None
    /\ number = 0
    /\ encoded = None

NextPayload ==
    \/ Compile
    \/ SerializeMsg

SpecPayload == InitPayload /\ [][NextPayload]_vars

-----------------------------------------------------------------------------
(* C14 *)

\* bytes Serialize writes for one instruction
InstructionBytes(ci) ==
    1 + Len(UintToVarLenBytes(Len(ci.Accounts)).bytes) + Len(ci.Accounts)
      + 1 + Len(ci.Data)

RECURSIVE BytesBefore(_, _)
BytesBefore(instrs, k) ==
    IF k = 1 THEN 0
    ELSE InstructionBytes(instrs[k - 1]) + BytesBefore(instrs, k - 1)

\* bytes of the Serialize output before the k-th instruction
InstructionStart(m, k) ==
    BeforeBlockHash(m) + Len(Base58Decode(m.RecentBlockHash).bytes)
      + Len(UintToVarLenBytes(Len(m.Instructions)).bytes)
      + BytesBefore(m.Instructions, k)

\* C14: in the bytes a successful Serialize returns, for every instruction
\* the program index byte and the account index bytes are the indices they
\* stand for, and the payload length byte is the number of payload bytes;
\* so no payload longer than 255 bytes and no index above 255 is emitted.
C14_NoSilentTruncation ==
    (pc = "serialized" /\ wire.status = "ok") =>
        \A k \in DOMAIN msg.Instructions :
            LET ci == msg.Instructions[k]
                at == InstructionStart(msg, k)
                accountsAt == at + 1
                    + Len(UintToVarLenBytes(Len(ci.Accounts)).bytes)
            IN  /\ wire.bytes[at + 1] = ci.ProgramIDIndex
                /\ \A j \in DOMAIN ci.Accounts :
                        wire.bytes[accountsAt + j] = ci.Accounts[j]
                /\ wire.bytes[accountsAt + Len(ci.Accounts) + 1] = Len(ci.Data)

-----------------------------------------------------------------------------
(* The caller of NewMessage with instructions of many accounts *)

\* the largest number of AccountMetas of the instruction sequence
MaxAccounts == 256

\* the number of AccountMetas of each instruction but the last
PerInstruction == 16

\* instructions of program p whose AccountMetas name the identities 1..n in
\* turn, all with the same flags
ManyAccounts(p, n, s, w) ==
    [k \in 1..((n + PerInstruction - 1) \div PerInstruction) |->
        LET from == PerInstruction * (k - 1)
            len == IF n - from < PerInstruction THEN n - from
                   ELSE PerInstruction
        IN  Instruction(p, [j \in 1..len |-> AccountMeta(from + j, s, w)],
                        <<9>>)]

\* two of the orders in which `range accountMap` may visit the entries of a
\* map whose identities are 1..m: ascending and descending. The lengths of
\* the four slices, and with them the header, are the same for every order.
KeyOrders(accountMap) ==
    LET m == Cardinality(DOMAIN accountMap)
    IN  {order \in {[i \in 1..m |-> i], [i \in 1..m |-> m + 1 - i]} :
            Range(order) = DOMAIN accountMap}

InitMany ==
    /\ \E n \in (MaxAccounts - 4)..MaxAccounts, s \in BOOLEAN, w \in BOOLEAN :
          \E p \in {1, n + 1} :
              /\ instructions = ManyAccounts(p, n, s, w)
              /\ feePayer \in {ZeroPublicKey, 2, p}
    /\ recentBlockHash = ValidHash
    /\ pc = "input"
    /\ msg = None
    /\ msg2 = None
    /\ wire = None
    /\ received = None
    /\ how = "none"
    /\ decoded = None
    /\ number = 0
    /\ encoded = None

CompileMany ==
    /\ pc = "input"
    /\ \E order \in KeyOrders(AccountMapOf(<<>>, instructions)) :
          msg' = NewMessage(feePayer, instructions, recentBlockHash, order)
    /\ pc' = "compiled"
    /\ UNCHANGED <<feePayer, instructions, recentBlockHash, msg2, wire, received,
                   how, decoded, varintVars>>

NextMany == CompileMany

SpecMany == InitMany /\ [][NextMany]_vars

-----------------------------------------------------------------------------
(* C15 *)

\* C15: NewMessage returns no Message for an instruction sequence of more
\* than 256 identities, and in every Message it returns each header count
\* is the true size of its tier (the number of signers, of read-only
\* signers, of read-only non-signers), not that size modulo 256.
C15_AccountCeiling ==
    Compiled =>
        /\ Cardinality(Identities) <= Uint8Range
        /\ NumSig = Cardinality({k \in Identities : EffSigner(k)})
        /\ NumRoSig = Cardinality({k \in Identities :
                            EffSigner(k) /\ ~EffWritable(k)})
        /\ NumRoUnsig = Cardinality({k \in Identities :
                            ~EffSigner(k) /\ ~EffWritable(k)})

-----------------------------------------------------------------------------
(* C16 *)

\* the tier the requested flags alone give an identity: 1 writable-signed,
\* 2 read-only-signed, 3 writable-unsigned, 4 read-only-unsigned
RequestedTier(k) ==
    IF RequestedSigner(k)
    THEN (IF RequestedWritable(k) THEN 1 ELSE 2)
    ELSE (IF RequestedWritable(k) THEN 3 ELSE 4)

\* C16: with the all-zero key as fee payer, NewMessage behaves as with no
\* fee payer. A zero key that no instruction names is not in Accounts. A
\* zero key that the instructions name is placed and counted by its merged
\* flags like any other identity: it stands once, in the tier of its merged
\* flags, behind every identity of an earlier tier (so not at Accounts[0]
\* when there is one), and the header counts the identities by their merged
\* flags alone.
C16_ZeroFeePayer ==
    (Compiled /\ feePayer = ZeroPublicKey) =>
        /\ ZeroPublicKey \notin Mentioned =>
                ZeroPublicKey \notin Range(msg.Accounts)
        /\ ZeroPublicKey \in Mentioned =>
            /\ Cardinality(PositionsOf(ZeroPublicKey)) = 1
            /\ \A i \in PositionsOf(ZeroPublicKey) :
                /\ InSignerTier(i) <=> RequestedSigner(ZeroPublicKey)
                /\ InWritableTier(i) <=> RequestedWritable(ZeroPublicKey)
                /\ \A j \in DOMAIN msg.Accounts :
                        RequestedTier(msg.Accounts[j])
                            < RequestedTier(ZeroPublicKey) => j < i
        /\ NumSig = Cardinality({k \in Mentioned : RequestedSigner(k)})
        /\ NumRoSig = Cardinality({k \in Mentioned :
                            RequestedSigner(k) /\ ~RequestedWritable(k)})
        /\ NumRoUnsig = Cardinality({k \in Mentioned :
                            ~RequestedSigner(k) /\ ~RequestedWritable(k)})
        /\ Len(msg.Accounts) = Cardinality(Mentioned)

\* the zero key is the fee payer argument and is named by the instructions
\* as a read-only non-signer, next to a signer that stands before it
C16_Witness ==
    /\ Compiled
    /\ feePayer = ZeroPublicKey
    /\ ZeroPublicKey \in Mentioned
    /\ RequestedTier(ZeroPublicKey) = 4
    /\ Len(msg.Accounts) >= 2
    /\ msg.Accounts[1] /= ZeroPublicKey
    /\ RequestedSigner(msg.Accounts[1])

====
